---- MODULE Spec2Model ----
(***************************************************************************)
(* The session relay of the Coddy dashboard (ui/react-app/src/App.js):     *)
(* the WebSocket effect (connectWebSocket, onopen, onmessage, onerror,     *)
(* onclose, the effect cleanup) and the terminal's handleCommandSubmit.    *)
(*                                                                         *)
(* Texts are sequences of string atoms, so that template literals are      *)
(* concatenations; a command line is a sequence of words and whitespace    *)
(* characters.  React state (terminalOutput, statusMessage) is written     *)
(* through functional updaters: an updater runs when React processes the   *)
(* update queue, after the handler that queued it has returned, and React  *)
(* drops updates of a component that is no longer mounted.                 *)
(***************************************************************************)
EXTENDS Integers, Sequences, FiniteSets, TLC

VARIABLES
    sockets,         \* every WebSocket object created by connectWebSocket, in creation order
    timers,          \* every setTimeout(connectWebSocket, 5000) call, in call order
    wsRef,           \* wsRef.current: index into sockets, 0 for null
    terminalOutput,  \* the terminalOutput state: sequence of {type, text}
    statusMessage,   \* the statusMessage state
    mounted,         \* the App component is mounted
    renderError,     \* an updater threw while React rendered (uncaught: the tree is unmounted)
    received,        \* raw payloads of the message events dispatched so far
    submitted,       \* the values of commandInput at each form submission so far
    sent,            \* the ws.send calls: [ws, data]
    fetches,         \* the fetch calls of handleCommandSubmit and fetchData, with their progress
    limits,          \* what the environment does at most in this run: [drops, frames, submits, requests]
    Memory,          \* backend: the documents of the Memory collection, in insertion order
    Roadmap,         \* backend: the documents of the Roadmap collection, in insertion order
    responses,       \* backend: every request answered so far, with its response
    isLoading,       \* IdeaSynthPlayground: the isLoading state
    results,         \* IdeaSynthPlayground: the results state
    error,           \* IdeaSynthPlayground: the error state
    ideaFetches      \* IdeaSynthPlayground: the fetch calls of handleSubmit, with their replies

vars == <<sockets, timers, wsRef, terminalOutput, statusMessage, mounted,
          renderError, received, submitted, sent, fetches, limits, Memory, Roadmap, responses,
                   isLoading, results, error, ideaFetches>>

\* ---------------------------------------------------------------- bounds
MaxDrops == 2      \* sockets the network may fail or close remotely
MaxFrames == 2     \* inbound message events
MaxSubmits == 2    \* form submissions
MaxRequests == 3   \* HTTP requests answered by the backend
MaxIdeas == 2      \* submissions of the idea form

\* A run exercises one kind of input up to its bound, or one of each kind, or
\* two submissions with one inbound frame among them.
Profiles ==
    { [drops |-> MaxDrops, frames |-> 0, submits |-> 0, requests |-> 0, ideas |-> 0],
      [drops |-> 1, frames |-> MaxFrames, submits |-> 0, requests |-> 0, ideas |-> 0],
      [drops |-> 0, frames |-> 0, submits |-> MaxSubmits, requests |-> 0, ideas |-> 0],
      [drops |-> 0, frames |-> 0, submits |-> 0, requests |-> MaxRequests, ideas |-> 0],
      [drops |-> 0, frames |-> 0, submits |-> 0, requests |-> 0, ideas |-> MaxIdeas],
      [drops |-> 0, frames |-> 1, submits |-> 2, requests |-> 0, ideas |-> 0],
      [drops |-> 1, frames |-> 1, submits |-> 1, requests |-> 0, ideas |-> 0] }

\* ------------------------------------------------------- program constants
RECONNECT_DELAY == 5000

UNDEFINED == "<undefined>"
NULL == "<null>"
UndefinedText == <<UNDEFINED>>

ConnectedLine ==
    [type |-> "info", text |-> <<"Connected to Coddy real-time logstream.">>]
WsErrorLine ==
    [type |-> "error", text |-> <<"WebSocket error occurred. Retrying in 5s...">>]
DisconnectedLine ==
    [type |-> "info",
     text |-> <<"Disconnected from Coddy real-time logstream. Attempting to reconnect...">>]
StatusRetrying == <<"WebSocket disconnected. Retrying...">>
StatusDisconnected == <<"WebSocket disconnected.">>

\* ------------------------------------------------------------ React state
\* A variant of the transcript store that outlives the component
setTerminalOutputUnguarded(out, line) == Append(out, line)

\* A variant that sets the transcript from a stale, empty snapshot
setTerminalOutputStale(out, line) == IF mounted THEN <<line>> ELSE out

\* setTerminalOutput(prev => [...prev, line]) once React has run the updater.
setTerminalOutput(out, line) == IF mounted THEN Append(out, line) ELSE out

\* setStatusMessage(s)
setStatusMessage(old, s) == IF mounted THEN s ELSE old

\* A variant of the constructor whose socket is open from the start
NewSocketOpen(t) == [readyState |-> "OPEN", onclose |-> TRUE, closeDue |-> FALSE, via |-> t]

\* ---------------------------------------------------------------- sockets
NewSocket(t) == [readyState |-> "CONNECTING", onclose |-> TRUE, closeDue |-> FALSE, via |-> t]

\* ws.close(): starts the closing handshake of a socket that is connecting or open
close(s) ==
    IF s.readyState \in {"CONNECTING", "OPEN"}
    THEN [s EXCEPT !.readyState = "CLOSING", !.closeDue = TRUE]
    ELSE s

Init ==
    /\ sockets = <<NewSocket(0)>>
    /\ timers = <<>>
    /\ wsRef = 0
    /\ terminalOutput = <<>>
    /\ statusMessage = <<>>
    /\ mounted = TRUE
    /\ renderError = FALSE
    /\ received = <<>>
    /\ submitted = <<>>
    /\ sent = <<>>
    /\ fetches = <<>>
    /\ limits \in Profiles
    /\ Memory = <<>>
    /\ Roadmap = <<>>
    /\ responses = <<>>
    /\ isLoading = FALSE
    /\ results = <<>>
    /\ error = NULL
    /\ ideaFetches = <<>>

\* A variant of ws.onopen that sends the last submitted line once connected
onopenFlushes(i) ==
    /\ sockets[i].readyState = "CONNECTING"
    /\ sockets' = [sockets EXCEPT ![i].readyState = "OPEN"]
    /\ wsRef' = i
    /\ terminalOutput' = setTerminalOutput(terminalOutput, ConnectedLine)
    /\ sent' = IF submitted # <<>>
               THEN Append(sent, [ws |-> i,
                                  data |-> [type |-> "cli_input", command |-> submitted[Len(submitted)]]])
               ELSE sent
    /\ UNCHANGED <<timers, statusMessage, mounted, renderError, received, submitted,
                   fetches, limits, Memory, Roadmap, responses,
                   isLoading, results, error, ideaFetches>>

\* A variant of ws.onopen that also reports the connection in the status
onopenSetsStatus(i) ==
    /\ sockets[i].readyState = "CONNECTING"
    /\ sockets' = [sockets EXCEPT ![i].readyState = "OPEN"]
    /\ wsRef' = i
    /\ terminalOutput' = setTerminalOutput(terminalOutput, ConnectedLine)
    /\ statusMessage' = setStatusMessage(statusMessage, <<"Connected.">>)
    /\ UNCHANGED <<timers, mounted, renderError, received, submitted, sent, fetches,
                   limits, Memory, Roadmap, responses, isLoading, results, error,
                   ideaFetches>>

\* ws.onopen
onopen(i) ==
    /\ sockets[i].readyState = "CONNECTING"
    /\ sockets' = [sockets EXCEPT ![i].readyState = "OPEN"]
    /\ wsRef' = i
    /\ terminalOutput' = setTerminalOutput(terminalOutput, ConnectedLine)
    /\ UNCHANGED <<timers, statusMessage, mounted, renderError, received, submitted,
                   sent, fetches, limits, Memory, Roadmap, responses,
                   isLoading, results, error, ideaFetches>>

\* A variant of ws.onerror that also schedules a reconnection of its own
onerrorReconnects(i, seen) ==
    /\ i <= limits.drops
    /\ sockets[i].readyState \in {"CONNECTING", "OPEN"}
    /\ seen \in {sockets[i].readyState, "CLOSED"}
    /\ terminalOutput' = setTerminalOutput(terminalOutput, WsErrorLine)
    /\ statusMessage' = setStatusMessage(statusMessage, StatusRetrying)
    /\ sockets' = [sockets EXCEPT ![i] =
                      IF seen \in {"OPEN", "CONNECTING"}
                      THEN close(sockets[i])
                      ELSE [sockets[i] EXCEPT !.readyState = "CLOSED", !.closeDue = TRUE]]
    /\ timers' = Append(timers, [by |-> i, delay |-> RECONNECT_DELAY, fired |-> FALSE])
    /\ UNCHANGED <<wsRef, mounted, renderError, received, submitted, sent, fetches, limits, Memory, Roadmap, responses,
                   isLoading, results, error, ideaFetches>>

\* ws.onerror.  The transport failed; seen is the readyState the handler reads:
\* a browser has already set CLOSED, other hosts still show the old state.
onerror(i, seen) ==
    /\ i <= limits.drops
    /\ sockets[i].readyState \in {"CONNECTING", "OPEN"}
    /\ seen \in {sockets[i].readyState, "CLOSED"}
    /\ terminalOutput' = setTerminalOutput(terminalOutput, WsErrorLine)
    /\ statusMessage' = setStatusMessage(statusMessage, StatusRetrying)
    /\ sockets' = [sockets EXCEPT ![i] =
                      IF seen \in {"OPEN", "CONNECTING"}
                      THEN close(sockets[i])
                      ELSE [sockets[i] EXCEPT !.readyState = "CLOSED", !.closeDue = TRUE]]
    /\ UNCHANGED <<timers, wsRef, mounted, renderError, received, submitted, sent, fetches, limits, Memory, Roadmap, responses,
                   isLoading, results, error, ideaFetches>>

\* A variant of ws.onclose that reports nothing in the transcript
oncloseHandlerSilent(i) ==
    /\ terminalOutput' = terminalOutput
    /\ statusMessage' = setStatusMessage(statusMessage, StatusDisconnected)
    /\ timers' = Append(timers, [by |-> i, delay |-> RECONNECT_DELAY, fired |-> FALSE])

\* ws.onclose, when the handler is still attached
oncloseHandler(i) ==
    /\ terminalOutput' = setTerminalOutput(terminalOutput, DisconnectedLine)
    /\ statusMessage' = setStatusMessage(statusMessage, StatusDisconnected)
    /\ timers' = Append(timers, [by |-> i, delay |-> RECONNECT_DELAY, fired |-> FALSE])

\* The close event of socket i is dispatched: after an error or a close() call
\* (closeDue), or because the remote end closed an open connection.
CloseEvent(i) ==
    /\ \/ sockets[i].closeDue
       \/ sockets[i].readyState = "OPEN" /\ i <= limits.drops
    /\ sockets' = [sockets EXCEPT ![i].readyState = "CLOSED", ![i].closeDue = FALSE]
    /\ IF sockets[i].onclose
       THEN oncloseHandler(i)
       ELSE UNCHANGED <<terminalOutput, statusMessage, timers>>
    /\ UNCHANGED <<wsRef, mounted, renderError, received, submitted, sent, fetches, limits, Memory, Roadmap, responses,
                   isLoading, results, error, ideaFetches>>

\* A variant of the timer callback that leaves the timer armed (setInterval)
connectWebSocketRepeats(t) ==
    /\ ~timers[t].fired
    /\ sockets' = Append(sockets, NewSocket(t))
    /\ UNCHANGED <<timers, wsRef, terminalOutput, statusMessage, mounted, renderError,
                   received, submitted, sent, fetches, limits, Memory, Roadmap, responses,
                   isLoading, results, error, ideaFetches>>

\* A variant of the timer callback that gives up after the second attempt
connectWebSocketCapped(t) ==
    /\ ~timers[t].fired
    /\ Len(sockets) < 2
    /\ timers' = [timers EXCEPT ![t].fired = TRUE]
    /\ sockets' = Append(sockets, NewSocket(t))
    /\ UNCHANGED <<wsRef, terminalOutput, statusMessage, mounted, renderError, received,
                   submitted, sent, fetches, limits, Memory, Roadmap, responses,
                   isLoading, results, error, ideaFetches>>

\* The reconnection timer fires: connectWebSocket
connectWebSocket(t) ==
    /\ ~timers[t].fired
    /\ timers' = [timers EXCEPT ![t].fired = TRUE]
    /\ sockets' = Append(sockets, NewSocket(t))
    /\ UNCHANGED <<wsRef, terminalOutput, statusMessage, mounted, renderError, received,
                   submitted, sent, fetches, limits, Memory, Roadmap, responses,
                   isLoading, results, error, ideaFetches>>


\* ------------------------------------------------------------ inbound frames
\* The raw payloads (event.data) the server may send.
Payloads ==
    { "{\"type\":\"status\",\"text\":\"ready\"}",
      "{\"type\":\"info\",\"text\":\"hi\"}",
      "{\"type\":\"error\",\"text\":\"\"}",
      "{\"type\":\"warning\",\"text\":\"careful\"}",
      "{}",
      "oops",
      "null" }

JsObject(type, text) == [k |-> "object", type |-> type, text |-> text]

\* JSON.parse(event.data): the value, or a SyntaxError
JSONparse(raw) ==
    CASE raw = "{\"type\":\"status\",\"text\":\"ready\"}" ->
            [ok |-> TRUE, value |-> JsObject("status", <<"ready">>)]
      [] raw = "{\"type\":\"info\",\"text\":\"hi\"}" ->
            [ok |-> TRUE, value |-> JsObject("info", <<"hi">>)]
      [] raw = "{\"type\":\"error\",\"text\":\"\"}" ->
            [ok |-> TRUE, value |-> JsObject("error", <<>>)]
      [] raw = "{\"type\":\"warning\",\"text\":\"careful\"}" ->
            [ok |-> TRUE, value |-> JsObject("warning", <<"careful">>)]
      [] raw = "{}" ->
            [ok |-> TRUE, value |-> JsObject(UNDEFINED, UndefinedText)]
      [] raw = "null" -> [ok |-> TRUE, value |-> [k |-> "null"]]
      [] OTHER -> [ok |-> FALSE]

\* message.type and message.text; reading a property of null throws a TypeError
Throws(v) == v.k = "null"
MessageType(v) == IF v.k = "object" THEN v.type ELSE UNDEFINED
MessageText(v) == IF v.k = "object" THEN v.text ELSE UndefinedText

\* { type: message.type || 'log', text: message.text || event.data }
FrameLine(v, raw) ==
    [type |-> IF MessageType(v) \in {UNDEFINED, ""} THEN "log" ELSE MessageType(v),
     text |-> IF MessageText(v) \in {UndefinedText, <<>>} THEN <<raw>> ELSE MessageText(v)]

\* { type: 'log', text: event.data }
RawLogLine(raw) == [type |-> "log", text |-> <<raw>>]

\* if (message.type === 'status') setStatusMessage(message.text)
FrameStatus(v, old) ==
    IF MessageType(v) = "status" THEN setStatusMessage(old, MessageText(v)) ELSE old

TimerFires == \E t \in DOMAIN timers : connectWebSocket(t)

\* The cleanup of the WebSocket effect
Cleanup(socks) ==
    IF wsRef # 0
    THEN [socks EXCEPT ![wsRef] = close([socks[wsRef] EXCEPT !.onclose = FALSE])]
    ELSE socks

\* The component unmounts
Unmount ==
    /\ mounted
    /\ mounted' = FALSE
    /\ sockets' = Cleanup(sockets)
    /\ UNCHANGED <<timers, wsRef, terminalOutput, statusMessage, renderError, received,
                   submitted, sent, fetches, limits, Memory, Roadmap, responses,
                   isLoading, results, error, ideaFetches>>


\* ws.onmessage.  The updater queued on line 53 reads message.type when React
\* runs it, after the handler's try block has been left: for a null message
\* the handler catches the TypeError of line 55 and queues the raw log line,
\* and the first updater then throws while React renders, which unmounts the
\* tree (running the effect cleanup).
onmessage(i, raw) ==
    /\ Len(received) < limits.frames
    /\ sockets[i].readyState \in {"OPEN", "CLOSING"}
    /\ received' = Append(received, raw)
    /\ LET parsed == JSONparse(raw) IN
       IF ~parsed.ok
       THEN /\ terminalOutput' = setTerminalOutput(terminalOutput, RawLogLine(raw))
            /\ UNCHANGED <<sockets, statusMessage, mounted, renderError>>
       ELSE IF Throws(parsed.value)
       THEN /\ renderError' = (renderError \/ mounted)
            /\ mounted' = FALSE
            /\ sockets' = IF mounted THEN Cleanup(sockets) ELSE sockets
            /\ UNCHANGED <<terminalOutput, statusMessage>>
       ELSE /\ terminalOutput' = setTerminalOutput(terminalOutput, FrameLine(parsed.value, raw))
            /\ statusMessage' = FrameStatus(parsed.value, statusMessage)
            /\ UNCHANGED <<sockets, mounted, renderError>>
    /\ UNCHANGED <<timers, wsRef, submitted, sent, fetches, limits, Memory, Roadmap, responses,
                   isLoading, results, error, ideaFetches>>


\* ------------------------------------------------------------ command lines
\* A line is a sequence of words and whitespace characters.
Whitespace == {" ", "\t"}

Lines ==
    { <<>>,
      <<" ", "\t">>,
      <<"list", " ", "files">>,
      <<"checkpoint", " ", "save", " ", "v1", " ", "initial", " ", "snapshot">>,
      <<"checkpoint", " ", "save">>,
      <<"CHECKPOINT", " ", "Save", " ">>,
      <<"checkpoint", " ", "load", " ", "v1">>,
      <<" ", "CHECKPOINT", " ", "Save", " ", "v1", " ">>,
      <<"checkpoint", " ", " ", "save", "\t", "v2">> }

\* String.prototype.trim
RECURSIVE TrimStart(_)
TrimStart(s) ==
    IF s # <<>> /\ Head(s) \in Whitespace THEN TrimStart(Tail(s)) ELSE s

RECURSIVE TrimEnd(_)
TrimEnd(s) ==
    IF s # <<>> /\ s[Len(s)] \in Whitespace THEN TrimEnd(SubSeq(s, 1, Len(s) - 1)) ELSE s

\* Variants of trim: none at all, and of the start only
trimNothing(s) == s
trimStartOnly(s) == TrimStart(s)

trim(s) == TrimEnd(TrimStart(s))

\* command.split(' '): cut at every single space; other whitespace stays in its part
RECURSIVE split(_)
split(s) ==
    IF \E n \in DOMAIN s : s[n] = " "
    THEN LET k == CHOOSE n \in DOMAIN s : s[n] = " " /\ \A m \in 1..(n - 1) : s[m] # " "
         IN <<SubSeq(s, 1, k - 1)>> \o split(SubSeq(s, k + 1, Len(s)))
    ELSE <<s>>

\* parts.slice(3).join(' ')
RECURSIVE join(_)
join(ps) ==
    IF ps = <<>> THEN <<>>
    ELSE IF Len(ps) = 1 THEN ps[1]
    ELSE ps[1] \o <<" ">> \o join(Tail(ps))

\* String.prototype.toLowerCase
LowerWord(w) ==
    CASE w = "CHECKPOINT" -> "checkpoint"
      [] w = "Save" -> "save"
      [] OTHER -> w

toLowerCase(s) == [n \in DOMAIN s |-> LowerWord(s[n])]

\* .replace(/"/g, '')
removeQuotes(s) == SelectSeq(s, LAMBDA c : c # "\"")

\* A variant of the carve-out test that forgets the sub-verb
IsCheckpointAny(parts) == toLowerCase(parts[1]) = <<"checkpoint">>

\* mainCommand === 'checkpoint' && parts[1] && parts[1].toLowerCase() === 'save'
IsCheckpointSave(parts) ==
    /\ toLowerCase(parts[1]) = <<"checkpoint">>
    /\ Len(parts) >= 2
    /\ parts[2] # <<>>
    /\ toLowerCase(parts[2]) = <<"save">>

\* parts[2]
checkpointName(parts) == IF Len(parts) >= 3 THEN parts[3] ELSE UndefinedText

\* A variant of the name test that accepts a missing name
NoNameNever(name) == FALSE

\* !checkpointName
NoName(name) == name \in {UndefinedText, <<>>}

\* parts.slice(3).join(' ').replace(/"/g, '').trim()
checkpointMessage(parts) == trim(removeQuotes(join(SubSeq(parts, 4, Len(parts)))))

\* The body of the POST to /api/memory
SaveBody(name, message) ==
    [content |-> [type |-> "checkpoint", name |-> name,
                  message |-> IF message = <<>>
                              THEN <<"Checkpoint ">> \o name \o <<" saved.">>
                              ELSE message],
     tags |-> <<<<"checkpoint">>, name>>,
     session_id |-> "ui_session",
     user_id |-> "ui_user"]

SaveFetch(name, message) ==
    [kind |-> "save", url |-> "/api/memory", method |-> "POST",
     body |-> <<SaveBody(name, message)>>, name |-> name, state |-> "pending"]

\* fetchData('/api/memory', setMemoryData, 'Failed to refresh memory data.')
RefreshFetch ==
    [kind |-> "refresh", url |-> "/api/memory", method |-> "GET",
     body |-> <<>>, name |-> <<>>, state |-> "pending"]

\* A variant of the outbound intent with the wrong type literal
CliInputAsCommand(command) == [type |-> "command", command |-> command]

\* JSON.stringify({ type: 'cli_input', command: command })
CliInput(command) == [type |-> "cli_input", command |-> command]

\* A variant of the echo that leaves the command out
EchoLineBare(command) == [type |-> "command", text |-> <<"Coddy> ">>]

EchoLine(command) == [type |-> "command", text |-> <<"Coddy> ">> \o command]
UsageLine == [type |-> "error", text |-> <<"Usage: checkpoint save <name> [message]">>]
NotActiveLine ==
    [type |-> "error",
     text |-> <<"WebSocket connection not active. Cannot send command to Python CLI.">>]
successMessageNoName(name) == <<"Checkpoint saved via UI API.">>
successMessage(name) == <<"Checkpoint '">> \o name \o <<"' saved via UI API.">>
errorMessageUnset(name) == <<>>
errorMessage(name) == <<"Failed to save checkpoint '">> \o name \o <<"' via UI API.">>

\* A variant of the open test that forgets the readyState
WsIsOpenRefOnly == wsRef # 0

\* wsRef.current && wsRef.current.readyState === WebSocket.OPEN
WsIsOpen == wsRef # 0 /\ sockets[wsRef].readyState = "OPEN"

\* A variant of the submit handler that forgets the connection on every submit
handleCommandSubmitForgets(line) ==
    /\ mounted
    /\ Len(submitted) < limits.submits
    /\ submitted' = Append(submitted, line)
    /\ wsRef' = 0
    /\ UNCHANGED <<sockets, timers, terminalOutput, statusMessage, mounted, renderError,
                   received, sent, fetches, limits, Memory, Roadmap, responses,
                   isLoading, results, error, ideaFetches>>

\* handleCommandSubmit up to its first await (or its return)
handleCommandSubmit(line) ==
    /\ mounted
    /\ Len(submitted) < limits.submits
    /\ submitted' = Append(submitted, line)
    /\ IF trim(line) = <<>>
       THEN UNCHANGED <<terminalOutput, statusMessage, sent, fetches>>
       ELSE LET command == trim(line)
                parts == split(command)
                name == checkpointName(parts)
                executing == setStatusMessage(statusMessage, <<"Executing command...">>)
                sentStatus == setStatusMessage(executing,
                                  <<"Command sent to Python CLI for execution.">>)
            IN IF WsIsOpen
               THEN /\ sent' = Append(sent, [ws |-> wsRef, data |-> CliInput(command)])
                    /\ IF IsCheckpointSave(parts) /\ NoName(name)
                       THEN /\ terminalOutput' = setTerminalOutput(
                                   setTerminalOutput(terminalOutput, EchoLine(command)),
                                   UsageLine)
                            /\ statusMessage' = setStatusMessage(sentStatus,
                                                    <<"Invalid checkpoint command.">>)
                            /\ UNCHANGED fetches
                       ELSE /\ terminalOutput' =
                                   setTerminalOutput(terminalOutput, EchoLine(command))
                            /\ statusMessage' = sentStatus
                            /\ fetches' = IF IsCheckpointSave(parts)
                                          THEN Append(fetches,
                                                   SaveFetch(name, checkpointMessage(parts)))
                                          ELSE fetches
               ELSE /\ terminalOutput' = setTerminalOutput(terminalOutput, NotActiveLine)
                    /\ statusMessage' = setStatusMessage(executing, <<"WS not connected.">>)
                    /\ UNCHANGED <<sent, fetches>>
    /\ UNCHANGED <<sockets, timers, wsRef, mounted, renderError, received, limits, Memory, Roadmap, responses,
                   isLoading, results, error, ideaFetches>>

\* error.message of what the direct call throws
ErrorText(outcome) ==
    IF outcome = "not_ok"
    THEN <<"HTTP error! status: ", "500", " - ", "Internal Server Error">>
    ELSE <<"Failed to fetch">>

\* handleCommandSubmit from the settling of its fetch on: lines 192-200, or the catch
SaveSettled(k, outcome) ==
    /\ fetches[k].kind = "save"
    /\ outcome \in {"ok", "not_ok", "rejected"}
    /\ IF outcome = "ok"
       THEN /\ terminalOutput' = setTerminalOutput(terminalOutput,
                   [type |-> "success", text |-> successMessage(fetches[k].name)])
            /\ statusMessage' = setStatusMessage(statusMessage,
                                    <<"Command executed successfully.">>)
            /\ fetches' = Append([fetches EXCEPT ![k].state = outcome], RefreshFetch)
       ELSE /\ terminalOutput' = setTerminalOutput(terminalOutput,
                   [type |-> "error",
                    text |-> <<"Error: ">> \o (IF errorMessage(fetches[k].name) # <<>>
                                              THEN errorMessage(fetches[k].name)
                                              ELSE ErrorText(outcome))])
            /\ statusMessage' = setStatusMessage(statusMessage,
                                    <<"Command failed: ">> \o ErrorText(outcome))
            /\ fetches' = [fetches EXCEPT ![k].state = outcome]

\* fetchData from the settling of its fetch on
RefreshSettled(k, outcome) ==
    /\ fetches[k].kind = "refresh"
    /\ outcome \in {"ok", "rejected"}
    /\ statusMessage' = setStatusMessage(statusMessage,
           IF outcome = "ok" THEN <<>>
           ELSE <<"Error: ", "Failed to refresh memory data.", ". Check console for details.">>)
    /\ fetches' = [fetches EXCEPT ![k].state = outcome]
    /\ UNCHANGED terminalOutput

\* A variant of the settling in which a fetch may settle more than once
FetchSettleAgain(k, outcome) ==
    /\ \/ SaveSettled(k, outcome)
       \/ RefreshSettled(k, outcome)
    /\ UNCHANGED <<sockets, timers, wsRef, mounted, renderError, received, submitted,
                   sent, limits, Memory, Roadmap, responses,
                   isLoading, results, error, ideaFetches>>

\* A pending fetch settles and the async function that awaits it resumes
FetchSettle(k, outcome) ==
    /\ fetches[k].state = "pending"
    /\ \/ SaveSettled(k, outcome)
       \/ RefreshSettled(k, outcome)
    /\ UNCHANGED <<sockets, timers, wsRef, mounted, renderError, received, submitted,
                   sent, limits, Memory, Roadmap, responses,
                   isLoading, results, error, ideaFetches>>

\* ------------------------------------------------------- backend (server.js)
\* The JSON bodies a client may post to /api/memory, as express.json() parses them
MemoryBodies ==
    { [tags |-> <<"invalid">>],
      [content |-> ""],
      [content |-> "This is a test memory fragment.", tags |-> <<"test", "jest">>] }

\* The JSON bodies a client may post to /api/roadmap
RoadmapBodies ==
    { [goal |-> "Some goal"],
      [phase |-> "Phase 1"],
      [phase |-> "Phase 1", goal |-> "Complete core setup", status |-> "in-progress"],
      [phase |-> "Phase 2", goal |-> "Ship"] }

\* const { f } = req.body
Field(body, f) == IF f \in DOMAIN body THEN body[f] ELSE UNDEFINED

\* A variant of the negation that takes every value for present
FalsyNever(v) == FALSE

\* !v, for a string or undefined
Falsy(v) == v \in {UNDEFINED, ""}

\* new Memory({ content, tags, session_id, user_id }), once saved
NewMemory(body) ==
    [_id |-> Len(Memory) + 1,
     content |-> Field(body, "content"),
     tags |-> IF "tags" \in DOMAIN body THEN body.tags ELSE <<>>]

\* new Roadmap({ phase, goal, status, tasks }), once saved
NewRoadmapEntry(body) ==
    [_id |-> Len(Roadmap) + 1,
     phase |-> Field(body, "phase"),
     goal |-> Field(body, "goal"),
     status |-> IF "status" \in DOMAIN body THEN body.status ELSE "planned"]

\* res.status(code).json(json), recorded with the request it answers
Respond(method, route, body, code, json) ==
    responses' = Append(responses, [method |-> method, route |-> route, body |-> body,
                                    status |-> code, json |-> json])

\* app.post('/api/memory'); saved: whether newMemory.save() resolves
postMemory(body, saved) ==
    /\ Len(responses) < limits.requests
    /\ IF Falsy(Field(body, "content"))
       THEN /\ Respond("POST", "/api/memory", body, 400,
                       [error |-> "Memory content is required."])
            /\ UNCHANGED Memory
       ELSE IF saved
       THEN /\ Memory' = Append(Memory, NewMemory(body))
            /\ Respond("POST", "/api/memory", body, 201,
                       [message |-> "Memory fragment added", data |-> NewMemory(body)])
       ELSE /\ Respond("POST", "/api/memory", body, 500,
                       [error |-> "Failed to add memory fragment"])
            /\ UNCHANGED Memory
    /\ UNCHANGED <<sockets, timers, wsRef, terminalOutput, statusMessage, mounted,
                   renderError, received, submitted, sent, fetches, limits, Roadmap,
                   isLoading, results, error, ideaFetches>>

\* A variant of the GET route whose query is limited to the first document
getMemoryLimited(found) ==
    /\ Len(responses) < limits.requests
    /\ IF found
       THEN Respond("GET", "/api/memory", <<>>, 200,
                    [message |-> "Memory fragments retrieved",
                     data |-> IF Memory = <<>> THEN <<>> ELSE <<Memory[1]>>])
       ELSE Respond("GET", "/api/memory", <<>>, 500,
                    [error |-> "Failed to retrieve memory fragments"])
    /\ UNCHANGED <<sockets, timers, wsRef, terminalOutput, statusMessage, mounted,
                   renderError, received, submitted, sent, fetches, limits, Memory, Roadmap,
                   isLoading, results, error, ideaFetches>>

\* app.get('/api/memory'); found: whether Memory.find({}) resolves
getMemory(found) ==
    /\ Len(responses) < limits.requests
    /\ IF found
       THEN Respond("GET", "/api/memory", <<>>, 200,
                    [message |-> "Memory fragments retrieved", data |-> Memory])
       ELSE Respond("GET", "/api/memory", <<>>, 500,
                    [error |-> "Failed to retrieve memory fragments"])
    /\ UNCHANGED <<sockets, timers, wsRef, terminalOutput, statusMessage, mounted,
                   renderError, received, submitted, sent, fetches, limits, Memory, Roadmap,
                   isLoading, results, error, ideaFetches>>

\* app.post('/api/roadmap'); saved: whether newRoadmapEntry.save() resolves
postRoadmap(body, saved) ==
    /\ Len(responses) < limits.requests
    /\ IF Falsy(Field(body, "phase")) \/ Falsy(Field(body, "goal"))
       THEN /\ Respond("POST", "/api/roadmap", body, 400,
                       [error |-> "Phase and goal are required for a roadmap entry."])
            /\ UNCHANGED Roadmap
       ELSE IF saved
       THEN /\ Roadmap' = Append(Roadmap, NewRoadmapEntry(body))
            /\ Respond("POST", "/api/roadmap", body, 201,
                       [message |-> "Roadmap entry added", data |-> NewRoadmapEntry(body)])
       ELSE /\ Respond("POST", "/api/roadmap", body, 500,
                       [error |-> "Failed to add roadmap entry"])
            /\ UNCHANGED Roadmap
    /\ UNCHANGED <<sockets, timers, wsRef, terminalOutput, statusMessage, mounted,
                   renderError, received, submitted, sent, fetches, limits, Memory,
                   isLoading, results, error, ideaFetches>>

\* app.get('/api/roadmap'); found: whether Roadmap.find({}) resolves
getRoadmap(found) ==
    /\ Len(responses) < limits.requests
    /\ IF found
       THEN Respond("GET", "/api/roadmap", <<>>, 200,
                    [message |-> "Roadmap entries retrieved", data |-> Roadmap])
       ELSE Respond("GET", "/api/roadmap", <<>>, 500,
                    [error |-> "Failed to retrieve roadmap entries"])
    /\ UNCHANGED <<sockets, timers, wsRef, terminalOutput, statusMessage, mounted,
                   renderError, received, submitted, sent, fetches, limits, Memory, Roadmap,
                   isLoading, results, error, ideaFetches>>

\* ------------------------------------------- IdeaSynthPlayground (handleSubmit)
\* What the form may hold on submission (baseIdea is required)
IdeaForms ==
    { [idea |-> "A new way to test React apps", constraints |-> "", weirdMode |-> FALSE],
      [idea |-> "A failing test case", constraints |-> "must be visual", weirdMode |-> TRUE] }

\* What res.json() may find in the body of a response
IdeaBodies ==
    { [parses |-> TRUE, k |-> "object",
       data |-> [ideas |-> <<"A fantastic new idea!", "Another brilliant concept.">>]],
      [parses |-> TRUE, k |-> "object",
       data |-> [error |-> "Something went wrong on the server!"]],
      [parses |-> TRUE, k |-> "object", data |-> [note |-> "empty"]],
      [parses |-> TRUE, k |-> "null"],
      [parses |-> FALSE] }

\* How the fetch of handleSubmit may settle: rejected, or with a response
IdeaReplies ==
    {[kind |-> "rejected"]}
      \cup {[kind |-> "response", ok |-> ok, body |-> b] : ok \in BOOLEAN, b \in IdeaBodies}

\* The try block from the settling of the fetch on: the ideas it reaches
\* setResults with, or the message of what it throws
TryOutcome(reply) ==
    IF reply.kind = "rejected"
    THEN [threw |-> TRUE, message |-> "Failed to fetch"]
    ELSE IF ~reply.body.parses
    THEN [threw |-> TRUE, message |-> "Unexpected token < in JSON at position 0"]
    ELSE IF reply.body.k = "null"
    THEN [threw |-> TRUE,
          message |-> IF reply.ok
                      THEN "Cannot read properties of null (reading 'ideas')"
                      ELSE "Cannot read properties of null (reading 'error')"]
    ELSE IF ~reply.ok
    THEN [threw |-> TRUE,
          message |-> IF "error" \in DOMAIN reply.body.data /\ reply.body.data.error # ""
                      THEN reply.body.data.error
                      ELSE "Unknown error"]
    ELSE [threw |-> FALSE,
          ideas |-> IF "ideas" \in DOMAIN reply.body.data
                    THEN reply.body.data.ideas
                    ELSE <<>>]

\* handleSubmit up to its await; the submit button is disabled while isLoading
handleSubmit(form) ==
    /\ Len(ideaFetches) < limits.ideas
    /\ ~isLoading
    /\ isLoading' = TRUE
    /\ results' = <<>>
    /\ error' = NULL
    /\ ideaFetches' = Append(ideaFetches,
                          [url |-> "/api/idea-synth", method |-> "POST", body |-> form,
                           state |-> "pending"])
    /\ UNCHANGED <<sockets, timers, wsRef, terminalOutput, statusMessage, mounted,
                   renderError, received, submitted, sent, fetches, limits,
                   Memory, Roadmap, responses>>

\* A variant of handleSubmit without its finally block
IdeaSettledNoFinally(k, reply) ==
    /\ ideaFetches[k].state = "pending"
    /\ ideaFetches' = [ideaFetches EXCEPT ![k] =
                          [url |-> @.url, method |-> @.method, body |-> @.body,
                           state |-> "settled", reply |-> reply]]
    /\ IF TryOutcome(reply).threw
       THEN /\ error' = TryOutcome(reply).message
            /\ UNCHANGED <<results, isLoading>>
       ELSE /\ results' = TryOutcome(reply).ideas
            /\ isLoading' = FALSE
            /\ UNCHANGED error
    /\ UNCHANGED <<sockets, timers, wsRef, terminalOutput, statusMessage, mounted,
                   renderError, received, submitted, sent, fetches, limits,
                   Memory, Roadmap, responses>>

\* handleSubmit from the settling of its fetch on: try, catch, finally
IdeaSettled(k, reply) ==
    /\ ideaFetches[k].state = "pending"
    /\ ideaFetches' = [ideaFetches EXCEPT ![k] =
                          [url |-> @.url, method |-> @.method, body |-> @.body,
                           state |-> "settled", reply |-> reply]]
    /\ IF TryOutcome(reply).threw
       THEN /\ error' = TryOutcome(reply).message
            /\ UNCHANGED results
       ELSE /\ results' = TryOutcome(reply).ideas
            /\ UNCHANGED error
    /\ isLoading' = FALSE
    /\ UNCHANGED <<sockets, timers, wsRef, terminalOutput, statusMessage, mounted,
                   renderError, received, submitted, sent, fetches, limits,
                   Memory, Roadmap, responses>>

Next ==
    \/ \E i \in DOMAIN sockets : onopen(i)
    \/ \E i \in DOMAIN sockets : \E seen \in {"CONNECTING", "OPEN", "CLOSED"} : onerror(i, seen)
    \/ \E i \in DOMAIN sockets : CloseEvent(i)
    \/ TimerFires
    \/ \E i \in DOMAIN sockets : \E raw \in Payloads : onmessage(i, raw)
    \/ \E line \in Lines : handleCommandSubmit(line)
    \/ \E k \in DOMAIN fetches : \E outcome \in {"ok", "not_ok", "rejected"} : FetchSettle(k, outcome)
    \/ Unmount
    \/ \E body \in MemoryBodies : \E saved \in BOOLEAN : postMemory(body, saved)
    \/ \E found \in BOOLEAN : getMemory(found)
    \/ \E body \in RoadmapBodies : \E saved \in BOOLEAN : postRoadmap(body, saved)
    \/ \E found \in BOOLEAN : getRoadmap(found)
    \/ \E form \in IdeaForms : handleSubmit(form)
    \/ \E k \in DOMAIN ideaFetches : \E reply \in IdeaReplies : IdeaSettled(k, reply)

Spec == Init /\ [][Next]_vars

\* The event loop runs a timer callback that is due.
FairSpec == Spec /\ WF_vars(TimerFires)

\* ------------------------------------------------------------------ claims
Last(s) == s[Len(s)]
Live(i) == sockets[i].readyState \in {"CONNECTING", "OPEN"}
Closed(i) == sockets[i].readyState = "CLOSED" /\ ~sockets[i].closeDue
PendingTimers == {t \in DOMAIN timers : ~timers[t].fired}
TimersOf(i) == {t \in DOMAIN timers : timers[t].by = i}
SocketsOf(t) == {j \in DOMAIN sockets : sockets[j].via = t}

\* C1: once the component has unmounted (the effect cleanup has run), no new
\* WebSocket is ever created, whatever the channel was doing at teardown.
C1_NoConnectAfterTeardown == [][~mounted => Len(sockets') = Len(sockets)]_vars

\* C2: in every reachable state the sockets that are connecting or open and
\* the reconnection timers still pending number at most one together.
C2_AtMostOneLive ==
    Cardinality({i \in DOMAIN sockets : Live(i)}) + Cardinality(PendingTimers) <= 1

\* a reconnect has happened: the first socket is closed and its successor is open
C2_Witness == Len(sockets) = 2 /\ Closed(1) /\ sockets[2].readyState = "OPEN"

\* C3: every socket whose close event was handled has scheduled exactly one
\* timer, of 5000 ms, and no socket more than one; a timer that fired created
\* exactly one socket and a pending one none; an error followed by the close
\* it forces schedules a single attempt.
C3_OneAttemptPerClosure ==
    /\ \A i \in DOMAIN sockets :
          /\ Cardinality(TimersOf(i)) <= 1
          /\ (Closed(i) /\ sockets[i].onclose) => Cardinality(TimersOf(i)) = 1
          /\ ~Closed(i) => TimersOf(i) = {}
    /\ \A t \in DOMAIN timers :
          /\ timers[t].delay = 5000
          /\ Cardinality(SocketsOf(t)) = IF timers[t].fired THEN 1 ELSE 0
    /\ Len(sockets) = 1 + Cardinality(DOMAIN timers \ PendingTimers)

\* socket 1 was open, failed with an error that forced close(), and was followed
\* by exactly one new attempt
C3_Witness ==
    /\ mounted
    /\ Len(sockets) = 2
    /\ wsRef = 1
    /\ Closed(1)
    /\ \E n \in DOMAIN terminalOutput : terminalOutput[n] = WsErrorLine
    /\ Len(timers) = 1

\* C4: while the component is mounted, a socket that has closed is always
\* followed by a new connection attempt once its timer fires, also after
\* consecutive failed attempts, and every timer has the same delay.
C4_Perpetual ==
    /\ [](\A t \in DOMAIN timers : timers[t].delay = RECONNECT_DELAY)
    /\ \A n \in 1..(MaxDrops + 1) :
          (mounted /\ Len(sockets) = n /\ Closed(n)) ~> (Len(sockets) > n)

\* two attempts failed without ever opening and a third is under way
C4_Witness ==
    /\ mounted
    /\ Len(sockets) = 3
    /\ wsRef = 0
    /\ sockets[3].readyState = "CONNECTING"

\* --- steps of the handlers, read off the event logs
FrameStep == received' # received
FrameRaw == Last(received')
FrameValue == JSONparse(FrameRaw).value
WellFormed(raw) ==
    /\ JSONparse(raw).ok
    /\ JSONparse(raw).value.k = "object"
    /\ JSONparse(raw).value.type # UNDEFINED
    /\ JSONparse(raw).value.text # UndefinedText
Malformed(raw) == ~JSONparse(raw).ok \/ JSONparse(raw).value.k # "object"

SubmitStep == submitted' # submitted
SubmitLine == Last(submitted')
NonBlank(line) == \E n \in DOMAIN line : line[n] \notin Whitespace
ChannelOpen == \E i \in DOMAIN sockets : sockets[i].readyState = "OPEN"
Appended(old, new) == SubSeq(new, Len(old) + 1, Len(new))
IsPrefix(old, new) == Len(old) <= Len(new) /\ SubSeq(new, 1, Len(old)) = old
OfType(lines, type) == SelectSeq(lines, LAMBDA l : l.type = type)
Atoms(text) == {text[n] : n \in DOMAIN text}

\* C5: a well-formed status frame adds no line to the transcript and sets the
\* status to the frame's text.
C5_StatusFrameNotAppended ==
    [][(mounted /\ FrameStep /\ WellFormed(FrameRaw) /\ FrameValue.type = "status")
          => (terminalOutput' = terminalOutput /\ statusMessage' = FrameValue.text)]_vars

\* C6: a well-formed frame of kind command, info, success, error or log, with
\* any text (the empty one included), appends exactly one line with the
\* frame's kind and the frame's text, at the end of the transcript.
C6_FrameAppendedVerbatim ==
    [][(mounted /\ FrameStep /\ WellFormed(FrameRaw)
            /\ FrameValue.type \in {"command", "info", "success", "error", "log"})
          => terminalOutput' = Append(terminalOutput,
                 [type |-> FrameValue.type, text |-> FrameValue.text])]_vars

\* C7: a malformed payload (not JSON, or JSON that is not an object) appends
\* exactly one log line holding the raw payload, raises nothing, and leaves
\* the sockets and the status as they were.
C7_MalformedBecomesLog ==
    [][(mounted /\ FrameStep /\ Malformed(FrameRaw))
          => /\ terminalOutput' = Append(terminalOutput, [type |-> "log", text |-> <<FrameRaw>>])
             /\ statusMessage' = statusMessage
             /\ sockets' = sockets
             /\ mounted'
             /\ ~renderError']_vars

\* C8: a non-blank line submitted while no socket is open appends exactly one
\* error line saying the connection is not active, sends nothing and starts
\* no fetch, whatever the verb.
C8_NotOpenNoSend ==
    [][(SubmitStep /\ NonBlank(SubmitLine) /\ ~ChannelOpen)
          => /\ Len(terminalOutput') = Len(terminalOutput) + 1
             /\ IsPrefix(terminalOutput, terminalOutput')
             /\ Last(terminalOutput').type = "error"
             /\ Last(terminalOutput').text =
                    <<"WebSocket connection not active. Cannot send command to Python CLI.">>
             /\ sent' = sent
             /\ fetches' = fetches]_vars

\* "checkpoint save v1 initial snapshot" was submitted after the socket had
\* opened and closed again, and was refused
C8_Witness ==
    /\ wsRef = 1
    /\ Closed(1)
    /\ submitted = <<<<"checkpoint", " ", "save", " ", "v1", " ", "initial", " ", "snapshot">>>>
    /\ terminalOutput # <<>>
    /\ Last(terminalOutput) = NotActiveLine
    /\ sent = <<>>
    /\ fetches = <<>>

\* C9: a non-blank line submitted while a socket is open appends exactly one
\* command line and sends exactly one cli_input intent on the open socket,
\* whatever the verb.
C9_OpenAlwaysRelays ==
    [][(SubmitStep /\ NonBlank(SubmitLine) /\ ChannelOpen)
          => /\ IsPrefix(terminalOutput, terminalOutput')
             /\ Len(OfType(Appended(terminalOutput, terminalOutput'), "command")) = 1
             /\ Len(sent') = Len(sent) + 1
             /\ IsPrefix(sent, sent')
             /\ Last(sent').data.type = "cli_input"
             /\ sockets[Last(sent').ws].readyState = "OPEN"]_vars

\* a checkpoint save without a name was relayed all the same
C9_Witness ==
    /\ submitted = <<<<"checkpoint", " ", "save">>>>
    /\ Len(sent) = 1
    /\ Len(OfType(terminalOutput, "command")) = 1

\* "checkpoint save <name> ..." in its plain form: single spaces, lower case
PlainSave(line) ==
    /\ Len(line) >= 5
    /\ SubSeq(line, 1, 4) = <<"checkpoint", " ", "save", " ">>
    /\ line[5] \notin Whitespace
    /\ line[Len(line)] \notin Whitespace

SaveFetches(fs) == SelectSeq(fs, LAMBDA f : f.method = "POST")

\* C10: "checkpoint save <name> <message>" submitted while a socket is open
\* appends one command echo, sends one cli_input carrying the command and
\* starts one POST; when that POST succeeds, one success line containing
\* <name> is appended, nothing is sent and no further POST is made.
C10_SaveOutcome ==
    [][/\ (SubmitStep /\ PlainSave(SubmitLine) /\ ChannelOpen)
          => /\ terminalOutput' = Append(terminalOutput,
                    [type |-> "command", text |-> <<"Coddy> ">> \o SubmitLine])
             /\ Len(sent') = Len(sent) + 1
             /\ IsPrefix(sent, sent')
             /\ Last(sent').data = [type |-> "cli_input", command |-> SubmitLine]
             /\ Len(SaveFetches(fetches')) = Len(SaveFetches(fetches)) + 1
             /\ Len(fetches') = Len(fetches) + 1
             /\ Last(fetches').url = "/api/memory"
             /\ Last(fetches').state = "pending"
       /\ \A k \in DOMAIN fetches :
             (mounted /\ fetches[k].method = "POST" /\ fetches[k].state = "pending"
                 /\ fetches'[k].state = "ok")
             => /\ Len(terminalOutput') = Len(terminalOutput) + 1
                /\ IsPrefix(terminalOutput, terminalOutput')
                /\ Last(terminalOutput').type = "success"
                /\ Atoms(fetches[k].name) # {}
                /\ Atoms(fetches[k].name) \subseteq Atoms(Last(terminalOutput').text)
                /\ sent' = sent
                /\ SaveFetches(fetches') = SaveFetches([fetches EXCEPT ![k].state = "ok"])
       /\ \A k \in DOMAIN fetches :
             fetches[k].state # "pending" => fetches'[k] = fetches[k]]_vars

\* the scenario of the claim has run to its end
C10_Witness ==
    /\ mounted
    /\ submitted = <<<<"checkpoint", " ", "save", " ", "v1", " ", "initial", " ", "snapshot">>>>
    /\ Len(sent) = 1
    /\ Len(fetches) >= 1
    /\ fetches[1].state = "ok"
    /\ Len(OfType(terminalOutput, "command")) = 1
    /\ \E n \in DOMAIN terminalOutput :
          terminalOutput[n].type = "success" /\ "v1" \in Atoms(terminalOutput[n].text)

\* --- the settling of a checkpoint save's POST, read off the fetch log
SaveFails(k) ==
    /\ fetches[k].method = "POST"
    /\ fetches[k].state = "pending"
    /\ fetches'[k].state \in {"not_ok", "rejected"}
FetchSettles(k) == fetches[k].state = "pending" /\ fetches'[k].state # "pending"

C13_BlankIsNoOp ==
    [][(SubmitStep /\ ~NonBlank(SubmitLine))
          => UNCHANGED <<terminalOutput, statusMessage, sent, fetches, sockets, timers,
                         wsRef, mounted, renderError>>]_vars

\* two blank lines were submitted while the socket was open
C13_Witness ==
    /\ Len(submitted) = 2
    /\ \A n \in DOMAIN submitted : ~NonBlank(submitted[n])
    /\ submitted[1] # submitted[2]
    /\ ChannelOpen
    /\ terminalOutput = <<ConnectedLine>>
    /\ sent = <<>>

\* cmd is line without its leading and trailing whitespace
TrimmedOf(line, cmd) ==
    \E a \in 0..Len(line) : \E b \in a..Len(line) :
        /\ cmd = SubSeq(line, a + 1, b)
        /\ \A n \in 1..a : line[n] \in {" ", "\t"}
        /\ \A n \in (b + 1)..Len(line) : line[n] \in {" ", "\t"}
        /\ cmd # <<>>
        /\ cmd[1] \notin {" ", "\t"}
        /\ cmd[Len(cmd)] \notin {" ", "\t"}

\* C14: nothing is sent except in the submission step itself, on a socket
\* that is open then: a line submitted while no socket is open is not sent
\* later, in particular not when a socket opens.
C14_NeverSentLater ==
    [][sent' # sent
          => /\ SubmitStep
             /\ ChannelOpen
             /\ Len(sent') = Len(sent) + 1
             /\ IsPrefix(sent, sent')
             /\ sockets[Last(sent').ws].readyState = "OPEN"
             /\ TrimmedOf(SubmitLine, Last(sent').data.command)]_vars

\* a line was refused while the socket was closed, and the next socket has
\* opened since without anything being sent
C14_Witness ==
    /\ Len(sockets) = 2
    /\ wsRef = 2
    /\ sockets[2].readyState = "OPEN"
    /\ Len(submitted) = 1
    /\ NonBlank(submitted[1])
    /\ sent = <<>>
    /\ \E n \in DOMAIN terminalOutput :
          /\ terminalOutput[n] = NotActiveLine
          /\ \E m \in (n + 1)..Len(terminalOutput) : terminalOutput[m] = ConnectedLine

C16_AppendOnly == [][IsPrefix(terminalOutput, terminalOutput')]_vars

\* the transcript holds lines of the channel, of a frame, of a command and of
\* a direct call
C16_Witness ==
    /\ mounted
    /\ Len(terminalOutput) >= 4
    /\ terminalOutput[1] = ConnectedLine
    /\ received # <<>>
    /\ OfType(terminalOutput, "command") # <<>>
    /\ \E k \in DOMAIN fetches : fetches[k].method = "POST" /\ fetches[k].state # "pending"

\* C17: every line of the transcript has a category of the fixed set; a frame
\* of an unrecognized kind is stored as log.
C17_CategoriesFixed ==
    \A n \in DOMAIN terminalOutput :
        terminalOutput[n].type \in {"command", "info", "success", "error", "log", "status"}

\* The channel's state: that of the socket created last
ChanState ==
    CASE sockets[Len(sockets)].readyState = "CONNECTING" -> "connecting"
      [] sockets[Len(sockets)].readyState = "OPEN" -> "open"
      [] OTHER -> "closed"

\* C18: the channel is connecting, open or closed, and its state changes only
\* from connecting to open, from open to closed and from closed to connecting.
C18_ThreeTransitions ==
    [][ChanState' # ChanState
          => <<ChanState, ChanState'>> \in
                 { <<"connecting", "open">>, <<"open", "closed">>,
                   <<"closed", "connecting">> }]_vars

\* C18, amended: as above, with the fourth transition of a connection attempt
\* that fails, from connecting to closed; every socket but the last is closing
\* or closed.
C18_FourTransitions ==
    [][/\ ChanState' # ChanState
          => <<ChanState, ChanState'>> \in
                 { <<"connecting", "open">>, <<"connecting", "closed">>,
                   <<"open", "closed">>, <<"closed", "connecting">> }
       /\ \A i \in 1..(Len(sockets') - 1) :
             sockets'[i].readyState \in {"CLOSING", "CLOSED"}]_vars

\* the first attempt failed without ever opening
C18_Witness == mounted /\ Len(sockets) = 1 /\ Closed(1) /\ wsRef = 0

\* The whitespace-separated tokens of a line
RECURSIVE Tokens(_)
Tokens(s) ==
    IF s = <<>> THEN <<>>
    ELSE IF s[1] \in {" ", "\t"} THEN Tokens(Tail(s))
    ELSE LET stops == {n \in DOMAIN s : s[n] \in {" ", "\t"}}
             k == IF stops = {} THEN Len(s) + 1
                  ELSE CHOOSE n \in stops : \A m \in stops : n <= m
         IN <<SubSeq(s, 1, k - 1)>> \o Tokens(SubSeq(s, k, Len(s)))

\* the first two tokens are "checkpoint" and "save", in any letter case
IsSaveVerb(line) ==
    /\ Len(Tokens(line)) >= 2
    /\ toLowerCase(Tokens(line)[1]) = <<"checkpoint">>
    /\ toLowerCase(Tokens(line)[2]) = <<"save">>

\* C19: a line whose first two tokens are not "checkpoint" "save" starts no
\* fetch at all, and a POST is only ever started by the submission of a
\* checkpoint save while a socket is open.
C19_DirectCallOnlyForSave ==
    [][/\ (SubmitStep /\ ~IsSaveVerb(SubmitLine)) => fetches' = fetches
       /\ Len(SaveFetches(fetches')) > Len(SaveFetches(fetches))
          => (SubmitStep /\ ChannelOpen /\ IsSaveVerb(SubmitLine))]_vars

\* "checkpoint load v1" was relayed on the open socket without a direct call
C19_Witness ==
    /\ submitted = <<<<"checkpoint", " ", "load", " ", "v1">>>>
    /\ Len(sent) = 1
    /\ fetches = <<>>

\* A request was answered in this step; Answer is the request with its response
RequestStep == Len(responses') = Len(responses) + 1
Answer == responses'[Len(responses')]
Without(body, f) == f \notin DOMAIN body \/ body[f] = ""

\* C20: a POST to /api/memory without content, or to /api/roadmap without phase
\* or without goal, is answered 400 with the validation error of its route,
\* and both collections stay as they were.
C20_InvalidPostRejected ==
    [][(RequestStep /\ Answer.method = "POST")
          => /\ (Answer.route = "/api/memory" /\ Without(Answer.body, "content"))
                => /\ Answer.status = 400
                   /\ Answer.json = [error |-> "Memory content is required."]
                   /\ Memory' = Memory /\ Roadmap' = Roadmap
             /\ (Answer.route = "/api/roadmap"
                   /\ (Without(Answer.body, "phase") \/ Without(Answer.body, "goal")))
                => /\ Answer.status = 400
                   /\ Answer.json = [error |-> "Phase and goal are required for a roadmap entry."]
                   /\ Memory' = Memory /\ Roadmap' = Roadmap]_vars

\* an entry was stored, then a roadmap POST without phase and a memory POST
\* without content were both refused
C20_Witness ==
    /\ Len(responses) = 3
    /\ responses[1].status = 201
    /\ responses[2].route = "/api/roadmap" /\ responses[2].body = [goal |-> "Some goal"]
    /\ responses[2].status = 400
    /\ responses[3].route = "/api/memory" /\ responses[3].body = [tags |-> <<"invalid">>]
    /\ responses[3].status = 400
    /\ Len(Memory) + Len(Roadmap) = 1

\* The requests answered so far that created a record, and those that listed
Created(i) == responses[i].method = "POST" /\ responses[i].status = 201
Listed(j) == responses[j].method = "GET" /\ responses[j].status = 200

\* the record d carries the fields that were posted in body
HasPosted(d, body) ==
    \A f \in DOMAIN body : f \in DOMAIN d /\ d[f] = body[f]

\* C21: once a POST to /api/memory or /api/roadmap has been answered 201, the
\* list of every later GET of that route holds the created record with the
\* posted fields, and the lists of successive GETs of a route only grow.
C21_CreatedStaysListed ==
    \A i \in DOMAIN responses : \A j \in DOMAIN responses :
        (i < j /\ Listed(j) /\ responses[i].route = responses[j].route)
           => /\ Created(i)
                 => \E n \in DOMAIN responses[j].json.data :
                       /\ responses[j].json.data[n] = responses[i].json.data
                       /\ HasPosted(responses[j].json.data[n], responses[i].body)
              /\ Listed(i) => IsPrefix(responses[i].json.data, responses[j].json.data)

\* two fragments were created and the GET that followed listed both
C21_Witness ==
    /\ Len(responses) = 3
    /\ Created(1) /\ Created(2) /\ Listed(3)
    /\ responses[1].route = "/api/memory"
    /\ responses[2].route = "/api/memory"
    /\ responses[3].route = "/api/memory"
    /\ Len(responses[3].json.data) = 2

\* The steps of the idea form: a submission, and the settling of request k
IdeaSubmitStep == Len(ideaFetches') = Len(ideaFetches) + 1
IdeaPending(k) == ideaFetches[k].state = "pending"
IdeaSettles(k) == ideaFetches[k].state = "pending" /\ ideaFetches'[k].state = "settled"
IdeaReply(k) == ideaFetches'[k].reply
IsResponse(r) == r.kind = "response"
ReadableBody(r) == IsResponse(r) /\ r.body.parses /\ r.body.k = "object"
HasMember(r, f) == ReadableBody(r) /\ f \in DOMAIN r.body.data

\* loading is true from the submission until the request settles, and false
\* once it has settled
LoadingFollowsRequest ==
    /\ IdeaSubmitStep => isLoading'
    /\ \A k \in DOMAIN ideaFetches :
          /\ IdeaPending(k) => isLoading
          /\ IdeaSettles(k) => ~isLoading'

ErrorStep(i) ==
    /\ sockets[i].readyState \in {"CONNECTING", "OPEN"}
    /\ ~sockets[i].closeDue
    /\ sockets'[i].closeDue
    /\ sockets'[i].onclose
ErroredCloseStep(i) ==
    /\ sockets[i].closeDue
    /\ sockets[i].onclose
    /\ sockets'[i].readyState = "CLOSED"
    /\ ~sockets'[i].closeDue
LastIndexOf(out, line) ==
    IF \E n \in DOMAIN out : out[n] = line
    THEN CHOOSE n \in DOMAIN out : out[n] = line /\ \A m \in DOMAIN out : out[m] = line => m <= n
    ELSE 0

\* C23: a transport error appends the error line and sets the retrying
\* status, and leaves the socket closing or closed with no reconnection
\* scheduled yet; the close handling that follows appends the disconnect line
\* after that error line, sets the disconnected status and schedules the one
\* reconnection of that socket.
C23_ErrorThenClose ==
    [][\A i \in DOMAIN sockets :
          /\ (mounted /\ ErrorStep(i))
                => /\ terminalOutput' = Append(terminalOutput, WsErrorLine)
                   /\ statusMessage' = StatusRetrying
                   /\ sockets'[i].readyState \in {"CLOSING", "CLOSED"}
                   /\ timers' = timers
          /\ (mounted /\ ErroredCloseStep(i))
                => /\ terminalOutput' = Append(terminalOutput, DisconnectedLine)
                   /\ LastIndexOf(terminalOutput, WsErrorLine)
                         > LastIndexOf(terminalOutput, DisconnectedLine)
                   /\ statusMessage' = StatusDisconnected
                   /\ Len(timers') = Len(timers) + 1
                   /\ {t \in DOMAIN timers' : timers'[t].by = i} = {Len(timers')}]_vars

\* the second connection was open when its transport failed, and was closed
C23_Witness ==
    /\ mounted
    /\ Len(sockets) = 2
    /\ Closed(2)
    /\ terminalOutput = <<ConnectedLine, DisconnectedLine, ConnectedLine, WsErrorLine,
                          DisconnectedLine>>
    /\ statusMessage = StatusDisconnected
    /\ Len(timers) = 2

\* C24: submitting a line, and the settling of a direct call, leave every
\* socket, the current-connection reference and the reconnection timers as
\* they were; the reference changes only when a connecting socket opens, and
\* then to that socket.
C24_RouterLeavesChannel ==
    [][/\ (SubmitStep \/ \E k \in DOMAIN fetches : FetchSettles(k))
          => (sockets' = sockets /\ wsRef' = wsRef /\ timers' = timers)
       /\ wsRef' # wsRef
          => /\ wsRef' \in DOMAIN sockets
             /\ sockets[wsRef'].readyState = "CONNECTING"
             /\ sockets'[wsRef'].readyState = "OPEN"]_vars

\* a checkpoint save was relayed on the open socket and its direct call failed
C24_Witness ==
    /\ wsRef = 1
    /\ sockets[1].readyState = "OPEN"
    /\ timers = <<>>
    /\ Len(sent) = 1
    /\ \E k \in DOMAIN fetches : fetches[k].kind = "save" /\ fetches[k].state = "rejected"

\* C25: while a socket is open, every line whose first two whitespace-separated
\* tokens are "checkpoint" and "save", in any letter case and with any
\* whitespace between the tokens, followed by a name token, starts the direct
\* call.
C25_WhitespaceTokens ==
    [][(mounted /\ SubmitStep /\ ChannelOpen
           /\ IsSaveVerb(SubmitLine) /\ Len(Tokens(SubmitLine)) >= 3)
          => Len(SaveFetches(fetches')) = Len(SaveFetches(fetches)) + 1]_vars

\* the frame parsed to an object; its members, when present
ParsedObject(raw) == JSONparse(raw).ok /\ JSONparse(raw).value.k = "object"
KindAbsent(raw) == JSONparse(raw).value.type = UNDEFINED
TextAbsent(raw) == JSONparse(raw).value.text = UndefinedText

\* C26: a parsable frame is stored with its own kind and text; the kind is log
\* only when the frame has none, and the text is the raw payload only when the
\* frame has none.
C26_DefaultsOnlyWhenAbsent ==
    [][(mounted /\ FrameStep /\ ParsedObject(FrameRaw))
          => /\ Len(terminalOutput') = Len(terminalOutput) + 1
             /\ Last(terminalOutput').type =
                   IF KindAbsent(FrameRaw) THEN "log" ELSE FrameValue.type
             /\ Last(terminalOutput').text =
                   IF TextAbsent(FrameRaw) THEN <<FrameRaw>> ELSE FrameValue.text]_vars

\* the line is "checkpoint save" and nothing more, in any letter case
SaveWithoutName(line) == IsSaveVerb(line) /\ Len(Tokens(line)) = 2
RefreshFetches(fs) == SelectSeq(fs, LAMBDA f : f.method = "GET")
OkSaves(fs) == SelectSeq(fs, LAMBDA f : f.method = "POST" /\ f.state = "ok")

\* C27: "checkpoint save" without a name, submitted while a socket is open, is
\* relayed and echoed, then exactly one usage error line follows the echo; no
\* direct call is started, and a refresh is only ever started by a save that
\* succeeded.
C27_NoNameUsage ==
    [][/\ (mounted /\ SubmitStep /\ ChannelOpen /\ SaveWithoutName(SubmitLine))
          => /\ Len(sent') = Len(sent) + 1
             /\ Last(sent').data.type = "cli_input"
             /\ TrimmedOf(SubmitLine, Last(sent').data.command)
             /\ Len(terminalOutput') = Len(terminalOutput) + 2
             /\ IsPrefix(terminalOutput, terminalOutput')
             /\ terminalOutput'[Len(terminalOutput) + 1] =
                   [type |-> "command", text |-> <<"Coddy> ">> \o Last(sent').data.command]
             /\ Last(terminalOutput') =
                   [type |-> "error", text |-> <<"Usage: checkpoint save <name> [message]">>]
             /\ fetches' = fetches
       /\ Len(RefreshFetches(fetches')) <= Len(OkSaves(fetches'))]_vars

\* "CHECKPOINT Save " was relayed, echoed and answered with the usage line
C27_Witness ==
    /\ mounted
    /\ submitted = <<<<"CHECKPOINT", " ", "Save", " ">>>>
    /\ Len(sent) = 1
    /\ Len(terminalOutput) = 3
    /\ Last(terminalOutput).text = <<"Usage: checkpoint save <name> [message]">>
    /\ fetches = <<>>

\* The checkpoint names of the direct calls started so far
SavedNames == {fetches[k].name : k \in {j \in DOMAIN fetches : fetches[j].method = "POST"}}

\* the line echoes a checkpoint save of name; the line is the result of one
IsEchoOf(l, name) ==
    /\ l.type = "command"
    /\ Len(l.text) >= 2
    /\ l.text[1] = "Coddy> "
    /\ IsSaveVerb(Tail(l.text))
    /\ Len(Tokens(Tail(l.text))) >= 3
    /\ Tokens(Tail(l.text))[3] = name
IsResultOf(l, name) ==
    /\ l.type \in {"success", "error"}
    /\ \E n \in DOMAIN l.text :
          /\ l.text[n] \in {"Checkpoint '", "Failed to save checkpoint '"}
          /\ n + Len(name) <= Len(l.text)
          /\ SubSeq(l.text, n + 1, n + Len(name)) = name
EchoesOf(name) == {n \in DOMAIN terminalOutput : IsEchoOf(terminalOutput[n], name)}
ResultsOf(name) == {n \in DOMAIN terminalOutput : IsResultOf(terminalOutput[n], name)}

\* C28: up to every result line of a checkpoint save, the transcript holds at
\* least as many echoes of saves of that name as result lines for it: each
\* result line has an echo of its own before it.
C28_EchoBeforeResult ==
    \A name \in SavedNames :
        LET echoes == EchoesOf(name)
            outcomes == ResultsOf(name)
        IN \A p \in outcomes :
              Cardinality({n \in outcomes : n <= p}) <= Cardinality({n \in echoes : n < p})

\* two saves of v1: the first echo, a frame, the second echo, then a result
C28_Witness ==
    /\ Len(terminalOutput) >= 5
    /\ IsEchoOf(terminalOutput[2], <<"v1">>)
    /\ terminalOutput[3] = [type |-> "info", text |-> <<"hi">>]
    /\ IsEchoOf(terminalOutput[4], <<"v1">>)
    /\ IsResultOf(terminalOutput[5], <<"v1">>)

SettledSaves(name) ==
    {k \in DOMAIN fetches :
        fetches[k].method = "POST" /\ fetches[k].name = name /\ fetches[k].state # "pending"}

\* C29: whatever the order in which the direct calls of several checkpoint
\* saves settle, and whatever frames and socket events come between, each
\* settling appends the one result line of its command and keeps every line
\* that was there, a settled call never settles again, and the transcript of
\* a mounted component holds exactly one result line per settled save.
C29_OneResultEach ==
    /\ [](mounted => \A name \in SavedNames :
                        Cardinality(ResultsOf(name)) = Cardinality(SettledSaves(name)))
    /\ [][/\ IsPrefix(terminalOutput, terminalOutput')
          /\ \A k \in DOMAIN fetches :
                /\ fetches[k].state # "pending" => fetches'[k] = fetches[k]
                /\ (mounted /\ fetches[k].method = "POST" /\ FetchSettles(k))
                      => /\ Len(terminalOutput') = Len(terminalOutput) + 1
                         /\ IsResultOf(Last(terminalOutput'), fetches[k].name)]_vars

\* two saves were in flight together; the second settled first, a frame came
\* in, then the first one failed
C29_Witness ==
    /\ mounted
    /\ Len(terminalOutput) = 6
    /\ IsEchoOf(terminalOutput[2], <<"v1">>)
    /\ IsEchoOf(terminalOutput[3], <<"v1">>)
    /\ terminalOutput[4].type = "success"
    /\ terminalOutput[5] = [type |-> "warning", text |-> <<"careful">>]
    /\ terminalOutput[6].type = "error"
    /\ IsResultOf(terminalOutput[6], <<"v1">>)
    /\ fetches[1].state = "rejected"
    /\ fetches[2].state = "ok"

\* Socket i opens; a socket is created
OpenStep(i) == sockets[i].readyState = "CONNECTING" /\ sockets'[i].readyState = "OPEN"
ConnectStep == Len(sockets') = Len(sockets) + 1

\* C30: the opening of a socket appends the connected line and leaves the
\* status as it was, and so does the creation of a socket: the disconnect
\* message written at the close stays through the reconnection.  The status
\* is written only by a submission, a frame, the settling of a fetch, and the
\* error and close handling of a socket.
C30_OpenKeepsStatus ==
    [][/\ \A i \in DOMAIN sockets :
             OpenStep(i)
                => /\ statusMessage' = statusMessage
                   /\ mounted => terminalOutput' = Append(terminalOutput, ConnectedLine)
       /\ ConnectStep => (statusMessage' = statusMessage /\ terminalOutput' = terminalOutput)
       /\ statusMessage' # statusMessage
          => \/ SubmitStep
             \/ FrameStep
             \/ \E k \in DOMAIN fetches : FetchSettles(k)
             \/ \E i \in DOMAIN sockets :
                   ErrorStep(i) \/ (sockets[i].onclose /\ ~Closed(i) /\ Closed(i)')]_vars

\* the first connection dropped, the second one is open, and the status still
\* says disconnected
C30_Witness ==
    /\ mounted
    /\ Len(sockets) = 2
    /\ Closed(1)
    /\ sockets[2].readyState = "OPEN"
    /\ wsRef = 2
    /\ Last(terminalOutput) = ConnectedLine
    /\ statusMessage = StatusDisconnected
====
